---------------------------- MODULE Spec2Model ----------------------------
(***************************************************************************)
(* SENTINEL reconciliation engine (src/src/sentinel_core.py).              *)
(*                                                                         *)
(* main() loads two frames, joins them with a pandas left merge on txn_id, *)
(* classifies the merged rows and writes the forensic report.              *)
(*                                                                         *)
(* Frames are sequences of rows (records keyed by column name).  An object *)
(* column holds strings, a missing cell is NaN.  A float64 column holds    *)
(* <<v>> for the number v and <<>> for NaN, so that the IEEE comparisons   *)
(* pandas performs (NaN != 0 is true, NaN == 0 is false) come out of plain *)
(* equality.  Amounts are whole currency units, as in the repository's     *)
(* data files; the input amount columns are fully populated and both files *)
(* carry the columns the code reads.                                       *)
(***************************************************************************)
EXTENDS Integers, Sequences, FiniteSets

VARIABLES
    pc,                \* position of main()
    calls,             \* functions main() has invoked so far, in order
    sales_df,          \* first value returned by load_datasets()
    bank_df,           \* second value returned by load_datasets()
    load_error,        \* what load_datasets() logged as critical, if anything
    missing_payments,  \* first frame returned by detect_anomalies()
    variance_records,  \* second frame returned by detect_anomalies()
    perfect_matches,   \* frame whose length detect_anomalies() logs
    report_file        \* content of audit_reports/FORENSIC_REPORT.txt

vars == <<pc, calls, sales_df, bank_df, load_error, missing_payments,
          variance_records, perfect_matches, report_file>>

----------------------------------------------------------------------------
\* Bounds of the model.

\* Longest sales_log.csv (rows) read by the model.
MaxSales == 2
\* Longest bank_feed.csv (rows) read by the model.
MaxBank == 2

----------------------------------------------------------------------------
\* Cell values.

\* A missing cell of an object (string) column, as read_csv yields it.
NaN == "NaN"
\* A missing cell of a float64 column.
FNaN == <<>>
\* The float64 number v.
F(v) == <<v>>

\* pandas isna() on a cell of an object column.
IsNa(v) == v = NaN

TxnIds == {"TXN-1001", "TXN-1003"}
Clients == {"Acme Corp"}
Timestamps == {"2025-12-01 09:15:00"}
BankRefs == {"BNK-REF-A001"}
SettledDates == {"2025-12-01"}
Amounts == {F(1), F(2)}

\* Rows of sales_log.csv; an empty txn_id cell is read as NaN.
SalesRows ==
    [txn_id : TxnIds \cup {NaN}, client : Clients,
     billed_amount : Amounts, timestamp : Timestamps]

\* Rows of bank_feed.csv; empty txn_id and bank_ref cells are read as NaN.
BankRows ==
    [txn_id : TxnIds \cup {NaN}, bank_ref : BankRefs \cup {NaN},
     received_amount : Amounts, settled_date : SettledDates]

SeqUpTo(S, n) == UNION {[1..k -> S] : k \in 0..n}

\* The value None, and a loaded DataFrame.
None == [isNone |-> TRUE, rows |-> <<>>]
DataFrame(rows) == [isNone |-> FALSE, rows |-> rows]

\* The report file before main() has written it.
NoFile == [written |-> FALSE]

----------------------------------------------------------------------------
\* pandas arithmetic on float64 cells.

\* a - b, NaN if either is NaN.
FSub(a, b) == IF a = FNaN \/ b = FNaN THEN FNaN ELSE F(a[1] - b[1])

\* Series.sum(): NaN cells are skipped, the empty sum is 0.
RECURSIVE ColSum(_, _)
ColSum(rows, col) ==
    IF rows = <<>> THEN 0
    ELSE (IF rows[1][col] = FNaN THEN 0 ELSE rows[1][col][1])
         + ColSum(Tail(rows), col)

----------------------------------------------------------------------------
\* pd.merge(sales_df, bank_df, on='txn_id', how='left').

\* Variant: a null key matches nothing, as in an SQL join.
KeyEq_NullNeverMatches(a, b) == a = b /\ a # NaN

\* Two join keys match when they are equal; pandas matches a null key with
\* a null key.
KeyEq(a, b) == a = b

\* Positions of the bank rows whose key matches that of sales row s, in
\* bank order.
MatchIdx(s, bank) ==
    SelectSeq([j \in 1..Len(bank) |-> j],
              LAMBDA j : KeyEq(bank[j].txn_id, s.txn_id))

\* A merged row of sales row s (at position i) with bank row b.  The field
\* left is not a column: it records which sales row the merged row came
\* from.
Joined(s, i, b) ==
    [txn_id |-> s.txn_id, client |-> s.client,
     billed_amount |-> s.billed_amount, timestamp |-> s.timestamp,
     bank_ref |-> b.bank_ref, received_amount |-> b.received_amount,
     settled_date |-> b.settled_date, left |-> i]

\* The merged row of a sales row no bank row matches: bank columns are NaN.
LeftOnly(s, i) ==
    [txn_id |-> s.txn_id, client |-> s.client,
     billed_amount |-> s.billed_amount, timestamp |-> s.timestamp,
     bank_ref |-> NaN, received_amount |-> FNaN,
     settled_date |-> NaN, left |-> i]

\* Variant: only the last matching bank row is joined.
RowsFor_LastWins(sales, bank, i) ==
    LET js == MatchIdx(sales[i], bank)
    IN  IF js = <<>> THEN <<LeftOnly(sales[i], i)>>
        ELSE <<Joined(sales[i], i, bank[js[Len(js)]])>>

\* The merged rows sales row i yields: one per matching bank row, in bank
\* order, or one left-only row.
RowsFor(sales, bank, i) ==
    LET js == MatchIdx(sales[i], bank)
    IN  IF js = <<>> THEN <<LeftOnly(sales[i], i)>>
        ELSE [k \in 1..Len(js) |-> Joined(sales[i], i, bank[js[k]])]

RECURSIVE MergeFrom(_, _, _)
MergeFrom(sales, bank, i) ==
    IF i > Len(sales) THEN <<>>
    ELSE RowsFor(sales, bank, i) \o MergeFrom(sales, bank, i + 1)

\* Variant: the rows of the left frame come out last first.
RECURSIVE MergeFrom_Reversed(_, _, _)
MergeFrom_Reversed(sales, bank, i) ==
    IF i > Len(sales) THEN <<>>
    ELSE MergeFrom_Reversed(sales, bank, i + 1) \o RowsFor(sales, bank, i)

Merge_Reversed(sales, bank) == MergeFrom_Reversed(sales, bank, 1)

\* Variant: how='outer'; the bank rows no sales row matches are appended,
\* their sales columns NaN.
Merge_Outer(sales, bank) ==
    LET orphans == SelectSeq(bank, LAMBDA b :
                       \A i \in 1..Len(sales) : ~KeyEq(b.txn_id, sales[i].txn_id))
    IN  MergeFrom(sales, bank, 1)
        \o [k \in 1..Len(orphans) |->
               [txn_id |-> orphans[k].txn_id, client |-> NaN,
                billed_amount |-> FNaN, timestamp |-> NaN,
                bank_ref |-> orphans[k].bank_ref,
                received_amount |-> orphans[k].received_amount,
                settled_date |-> orphans[k].settled_date, left |-> 0]]

\* The left join keeps the order of the left frame's rows.
Merge(sales, bank) == MergeFrom(sales, bank, 1)

----------------------------------------------------------------------------
\* detect_anomalies(sales_df, bank_df).

\* Variant: the test is made on another bank column, one that is empty only
\* in the left-only rows.
MissingPayments_BySettledDate(merged) ==
    SelectSeq(merged, LAMBDA r : IsNa(r.settled_date))

\* merged[merged['bank_ref'].isna()]
MissingPayments(merged) ==
    SelectSeq(merged, LAMBDA r : IsNa(r.bank_ref))

\* merged[merged['bank_ref'].notna()] with the variance column added.
MatchedRecords(merged) ==
    LET kept == SelectSeq(merged, LAMBDA r : ~IsNa(r.bank_ref))
    IN  [k \in 1..Len(kept) |->
            [txn_id |-> kept[k].txn_id, client |-> kept[k].client,
             billed_amount |-> kept[k].billed_amount,
             timestamp |-> kept[k].timestamp,
             bank_ref |-> kept[k].bank_ref,
             received_amount |-> kept[k].received_amount,
             settled_date |-> kept[k].settled_date, left |-> kept[k].left,
             variance |-> FSub(kept[k].billed_amount,
                               kept[k].received_amount)]]

\* matched_records[matched_records['variance'] != 0]
VarianceRecords(matched) ==
    SelectSeq(matched, LAMBDA r : r.variance # F(0))

\* matched_records[matched_records['variance'] == 0]
PerfectMatches(matched) ==
    SelectSeq(matched, LAMBDA r : r.variance = F(0))

DetectAnomalies(sales, bank) ==
    LET merged == Merge(sales, bank)
        matched == MatchedRecords(merged)
    IN  [missing_payments |-> MissingPayments(merged),
         variance_records |-> VarianceRecords(matched),
         perfect_matches |-> PerfectMatches(matched)]

----------------------------------------------------------------------------
\* generate_forensic_report(sales_df, missing_payments, variance_records).

Abs(v) == IF v < 0 THEN -v ELSE v

\* f"${x:,.2f}" (plus = FALSE) and f"${x:+,.2f}" (plus = TRUE) of a whole
\* number: sign, integer part, two decimals.
Fmt2f(v, plus) ==
    [sign |-> IF v < 0 THEN "-" ELSE IF plus THEN "+" ELSE "",
     whole |-> Abs(v), frac |-> "00"]

\* Section 1.
MissingSection(missing) ==
    [k \in 1..Len(missing) |->
        [txn_id |-> missing[k].txn_id, client |-> missing[k].client,
         billed |-> Fmt2f(missing[k].billed_amount[1], FALSE),
         billing_date |-> missing[k].timestamp,
         risk |-> "HIGH - Potential Revenue Loss"]]

\* Section 2.
VarianceSection(variances) ==
    [k \in 1..Len(variances) |->
        [txn_id |-> variances[k].txn_id, client |-> variances[k].client,
         billed |-> Fmt2f(variances[k].billed_amount[1], FALSE),
         received |-> Fmt2f(variances[k].received_amount[1], FALSE),
         variance |-> Fmt2f(variances[k].variance[1], TRUE),
         risk |-> "MEDIUM - Revenue Leakage"]]

\* Variant: the leakage figure sums the received amounts.
ExecutiveSummary_SumsReceived(missing, variances) ==
    <<[label |-> "Total Issues Identified",
       value |-> <<Len(missing) + Len(variances)>>],
      [label |-> "Critical (Missing Payments)", value |-> <<Len(missing)>>],
      [label |-> "Warnings (Variance)", value |-> <<Len(variances)>>]>>
    \o (IF missing # <<>>
        THEN <<[label |-> "Potential Revenue at Risk",
                value |-> Fmt2f(ColSum(missing, "billed_amount"), FALSE)]>>
        ELSE <<>>)
    \o (IF variances # <<>>
        THEN <<[label |-> "Revenue Leakage Detected",
                value |-> Fmt2f(ColSum(variances, "received_amount"), TRUE)]>>
        ELSE <<>>)

\* Section 3: the lines of the executive summary, in the order written.
ExecutiveSummary(missing, variances) ==
    <<[label |-> "Total Issues Identified",
       value |-> <<Len(missing) + Len(variances)>>],
      [label |-> "Critical (Missing Payments)", value |-> <<Len(missing)>>],
      [label |-> "Warnings (Variance)", value |-> <<Len(variances)>>]>>
    \o (IF missing # <<>>
        THEN <<[label |-> "Potential Revenue at Risk",
                value |-> Fmt2f(ColSum(missing, "billed_amount"), FALSE)]>>
        ELSE <<>>)
    \o (IF variances # <<>>
        THEN <<[label |-> "Revenue Leakage Detected",
                value |-> Fmt2f(ColSum(variances, "variance"), TRUE)]>>
        ELSE <<>>)

GenerateForensicReport(sales, missing, variances) ==
    [written |-> TRUE,
     total_analyzed |-> Len(sales),
     missing_section |-> MissingSection(missing),
     variance_section |-> VarianceSection(variances),
     summary |-> ExecutiveSummary(missing, variances)]

----------------------------------------------------------------------------
\* main().

\* Variant: the check is left out.
CannotProceed_NoCheck(s, b) == FALSE

\* sales_df is None or bank_df is None
CannotProceed(s, b) == s.isNone \/ b.isNone

Init ==
    /\ pc = "start"
    /\ calls = <<>>
    /\ sales_df = None
    /\ bank_df = None
    /\ load_error = "none"
    /\ missing_payments = <<>>
    /\ variance_records = <<>>
    /\ perfect_matches = <<>>
    /\ report_file = NoFile

\* load_datasets(): both files are read.
LoadOk ==
    /\ pc = "start"
    /\ \E s \in SeqUpTo(SalesRows, MaxSales), b \in SeqUpTo(BankRows, MaxBank) :
          /\ sales_df' = DataFrame(s)
          /\ bank_df' = DataFrame(b)
    /\ load_error' = "none"
    /\ calls' = Append(calls, "load_datasets")
    /\ pc' = "loaded"
    /\ UNCHANGED <<missing_payments, variance_records, perfect_matches,
                   report_file>>

\* load_datasets(): reading sales_log.csv raises; (None, None) is returned.
LoadSalesFails ==
    /\ pc = "start"
    /\ sales_df' = None
    /\ bank_df' = None
    /\ \E e \in {"Data source unavailable: sales_log.csv",
                 "Ingestion failure: sales_log.csv"} : load_error' = e
    /\ calls' = Append(calls, "load_datasets")
    /\ pc' = "loaded"
    /\ UNCHANGED <<missing_payments, variance_records, perfect_matches,
                   report_file>>

\* load_datasets(): sales_log.csv is read, reading bank_feed.csv raises;
\* (None, None) is returned.
LoadBankFails ==
    /\ pc = "start"
    /\ sales_df' = None
    /\ bank_df' = None
    /\ \E e \in {"Data source unavailable: bank_feed.csv",
                 "Ingestion failure: bank_feed.csv"} : load_error' = e
    /\ calls' = Append(calls, "load_datasets")
    /\ pc' = "loaded"
    /\ UNCHANGED <<missing_payments, variance_records, perfect_matches,
                   report_file>>

\* main(): ABORT, return.
Abort ==
    /\ pc = "loaded"
    /\ CannotProceed(sales_df, bank_df)
    /\ pc' = "aborted"
    /\ UNCHANGED <<calls, sales_df, bank_df, load_error, missing_payments,
                   variance_records, perfect_matches, report_file>>

\* main(): step 2, detect_anomalies(sales_df, bank_df).
Detect ==
    /\ pc = "loaded"
    /\ ~CannotProceed(sales_df, bank_df)
    /\ LET r == DetectAnomalies(sales_df.rows, bank_df.rows)
       IN  /\ missing_payments' = r.missing_payments
           /\ variance_records' = r.variance_records
           /\ perfect_matches' = r.perfect_matches
    /\ calls' = Append(calls, "detect_anomalies")
    /\ pc' = "detected"
    /\ UNCHANGED <<sales_df, bank_df, load_error, report_file>>

\* main(): step 3, generate_forensic_report(...), then the final status is
\* logged and main() returns.
Report ==
    /\ pc = "detected"
    /\ report_file' = GenerateForensicReport(sales_df.rows, missing_payments,
                                             variance_records)
    /\ calls' = Append(calls, "generate_forensic_report")
    /\ pc' = "done"
    /\ UNCHANGED <<sales_df, bank_df, load_error, missing_payments,
                   variance_records, perfect_matches>>

Next ==
    \/ LoadOk
    \/ LoadSalesFails
    \/ LoadBankFails
    \/ Abort
    \/ Detect
    \/ Report

Spec == Init /\ [][Next]_vars

----------------------------------------------------------------------------
\* Vocabulary of the properties.

\* detect_anomalies() has returned to main().
Returned == pc \in {"detected", "done"}

\* Positions of the settlement rows carrying the same transaction id as
\* billed row i.
SameId(i) ==
    {j \in 1..Len(bank_df.rows) :
        bank_df.rows[j].txn_id = sales_df.rows[i].txn_id}

\* Number of entries of frame out that come from billed row i.
CountLeft(out, i) == Cardinality({k \in 1..Len(out) : out[k].left = i})

\* Number of entries, over the three outcomes, that come from billed row i.
Placed(i) ==
    CountLeft(missing_payments, i) + CountLeft(variance_records, i)
        + CountLeft(perfect_matches, i)

\* Entries of frame out that come from billed row i and carry the bank
\* columns of settlement row b.
EntriesOf(out, i, b) ==
    {k \in 1..Len(out) :
        /\ out[k].left = i
        /\ out[k].bank_ref = b.bank_ref
        /\ out[k].received_amount = b.received_amount
        /\ out[k].settled_date = b.settled_date}

Max(a, b) == IF a >= b THEN a ELSE b

RECURSIVE SumOver(_, _)
SumOver(n, f) == IF n = 0 THEN 0 ELSE f[n] + SumOver(n - 1, f)

\* The number a formatted amount denotes.
Parse2f(t) == IF t.sign = "-" THEN -t.whole ELSE t.whole

\* The lines of the written report's summary that carry label l.
SummaryLines(l) ==
    {k \in 1..Len(report_file.summary) : report_file.summary[k].label = l}

\* Every loaded record carries its transaction id.
IdsPresent ==
    /\ \A i \in 1..Len(sales_df.rows) : sales_df.rows[i].txn_id # NaN
    /\ \A j \in 1..Len(bank_df.rows) : bank_df.rows[j].txn_id # NaN

\* bank with row j taken out.
Remove(bank, j) == SubSeq(bank, 1, j - 1) \o SubSeq(bank, j + 1, Len(bank))

----------------------------------------------------------------------------
\* C1 (as amended).  Every joined row (a billed record paired with one
\* settlement record of the same id, or a billed record alone when there is
\* none) lands in exactly one of missing, variances, perfect matches: a
\* billed record whose id occurs k times in the settlement input is placed
\* Max(1, k) times, so the three lengths add up to the sum of Max(1, k) over
\* the billed records, which is the reported total |B| only when no billed
\* id is repeated in the settlement input.
C1_JoinedRowsPartitioned ==
    Returned =>
        LET n == Len(sales_df.rows)
            k == [i \in 1..n |-> Max(1, Cardinality(SameId(i)))]
        IN  /\ \A i \in 1..n : Placed(i) = k[i]
            /\ Len(missing_payments) + Len(variance_records)
                   + Len(perfect_matches) = SumOver(n, k)
            /\ report_file.written => report_file.total_analyzed = n

\* A billed record whose id is carried by two settlement records, one of
\* them with an empty bank reference, has been classified.
C1_Witness ==
    /\ Returned
    /\ \E i \in 1..Len(sales_df.rows) :
          /\ Cardinality(SameId(i)) = 2
          /\ \E j \in SameId(i) : bank_df.rows[j].bank_ref = NaN

\* C1 as claimed, for records that all carry an id: every billed record is
\* placed exactly once and the three lengths add up to |B|.
C1_Original ==
    Returned /\ IdsPresent =>
        /\ \A i \in 1..Len(sales_df.rows) : Placed(i) = 1
        /\ Len(missing_payments) + Len(variance_records)
               + Len(perfect_matches) = Len(sales_df.rows)

----------------------------------------------------------------------------
\* C2 as claimed, for records that all carry an id.  A billed record is in
\* missing_payments if and only if no settlement record carries its id.
C2_MissingIffNoSettlement ==
    Returned /\ IdsPresent =>
        \A i \in 1..Len(sales_df.rows) :
            CountLeft(missing_payments, i) > 0 <=> SameId(i) = {}

----------------------------------------------------------------------------
\* C3 as claimed, for records that all carry an id.  Every variance entry
\* is a billed record matched to a settlement and carries the non-zero
\* variance billed - received; a billed record matched to a settlement of
\* the same amount is not in variances with that settlement and is counted
\* as a perfect match.
C3_ZeroVarianceExclusion ==
    Returned /\ IdsPresent =>
        /\ \A k \in 1..Len(variance_records) :
              LET r == variance_records[k]
              IN  /\ SameId(r.left) # {}
                  /\ r.variance = FSub(r.billed_amount, r.received_amount)
                  /\ r.variance # F(0)
        /\ \A i \in 1..Len(sales_df.rows) : \A j \in SameId(i) :
              sales_df.rows[i].billed_amount = bank_df.rows[j].received_amount
                  => /\ EntriesOf(variance_records, i, bank_df.rows[j]) = {}
                     /\ EntriesOf(perfect_matches, i, bank_df.rows[j]) # {}

\* The part of C3 that the code keeps: no variance entry has variance 0, and
\* a merged row with a bank reference and equal amounts is a perfect match.
C3_HoldsForRowsWithBankRef ==
    Returned =>
        /\ \A k \in 1..Len(variance_records) :
              LET r == variance_records[k]
              IN  /\ SameId(r.left) # {}
                  /\ r.variance = FSub(r.billed_amount, r.received_amount)
                  /\ r.variance # F(0)
        /\ \A i \in 1..Len(sales_df.rows) : \A j \in SameId(i) :
              /\ sales_df.rows[i].billed_amount
                     = bank_df.rows[j].received_amount
              /\ bank_df.rows[j].bank_ref # NaN
              => /\ EntriesOf(variance_records, i, bank_df.rows[j]) = {}
                 /\ EntriesOf(perfect_matches, i, bank_df.rows[j]) # {}

----------------------------------------------------------------------------
\* C4.  Order preservation: two entries of missing_payments (respectively
\* of variance_records) that come from different billed records stand in
\* the order of those billed records in the billed input.
C4_OrderPreserved ==
    Returned =>
        /\ \A p, q \in 1..Len(missing_payments) :
              missing_payments[p].left # missing_payments[q].left =>
                  (p < q <=> missing_payments[p].left < missing_payments[q].left)
        /\ \A p, q \in 1..Len(variance_records) :
              variance_records[p].left # variance_records[q].left =>
                  (p < q <=> variance_records[p].left < variance_records[q].left)

\* Two different billed records have both landed in variances.
C4_Witness ==
    /\ Returned
    /\ \E p, q \in 1..Len(variance_records) :
          variance_records[p].left # variance_records[q].left

----------------------------------------------------------------------------
\* C5 (as amended).  When several settlement records carry the id of a
\* billed record, the billed record yields one classified entry per such
\* settlement record, each carrying the bank columns of its own settlement
\* record and, when it has a variance, the variance computed from it.
C5_OneEntryPerSettlement ==
    Returned =>
        \A i \in 1..Len(sales_df.rows) :
            /\ SameId(i) # {} => Placed(i) = Cardinality(SameId(i))
            /\ \A j \in SameId(i) :
                  LET b == bank_df.rows[j]
                  IN  Cardinality(EntriesOf(missing_payments, i, b))
                        + Cardinality(EntriesOf(variance_records, i, b))
                        + Cardinality(EntriesOf(perfect_matches, i, b))
                      = Cardinality({j2 \in SameId(i) :
                            /\ bank_df.rows[j2].bank_ref = b.bank_ref
                            /\ bank_df.rows[j2].received_amount
                                   = b.received_amount
                            /\ bank_df.rows[j2].settled_date = b.settled_date})
            /\ \A k \in 1..Len(variance_records) :
                  variance_records[k].left = i =>
                      variance_records[k].variance
                          = FSub(sales_df.rows[i].billed_amount,
                                 variance_records[k].received_amount)

\* A billed record whose id is carried by two settlement records of
\* different amounts has been classified.
C5_Witness ==
    /\ Returned
    /\ \E i \in 1..Len(sales_df.rows) : \E j1, j2 \in SameId(i) :
          bank_df.rows[j1].received_amount # bank_df.rows[j2].received_amount

\* C5 as claimed, for records that all carry an id: the billed record
\* yields exactly one classified entry, computed from the last settlement
\* record carrying its id.
C5_Original ==
    Returned /\ IdsPresent =>
        \A i \in 1..Len(sales_df.rows) :
            SameId(i) # {} =>
                LET last == CHOOSE j \in SameId(i) : \A j2 \in SameId(i) : j2 <= j
                    b == bank_df.rows[last]
                IN  /\ Placed(i) = 1
                    /\ Cardinality(EntriesOf(missing_payments, i, b))
                         + Cardinality(EntriesOf(variance_records, i, b))
                         + Cardinality(EntriesOf(perfect_matches, i, b)) = 1

----------------------------------------------------------------------------
----------------------------------------------------------------------------
\* C7.  When load_datasets fails, detect_anomalies and
\* generate_forensic_report are never invoked and no report file is
\* written; detect_anomalies is invoked only with both frames loaded, and
\* the report is generated only after detect_anomalies has returned.
C7_AbortOnUnavailableSource ==
    LET called(f) == \E k \in 1..Len(calls) : calls[k] = f
    IN  /\ load_error # "none" \/ sales_df.isNone \/ bank_df.isNone
            => /\ ~called("detect_anomalies")
               /\ ~called("generate_forensic_report")
               /\ report_file = NoFile
               /\ pc \in {"loaded", "aborted"} \/ calls = <<>>
        /\ called("detect_anomalies")
            => /\ calls[1] = "load_datasets" /\ calls[2] = "detect_anomalies"
               /\ ~sales_df.isNone /\ ~bank_df.isNone
        /\ called("generate_forensic_report")
            => /\ SubSeq(calls, 1, 2) = <<"load_datasets", "detect_anomalies">>
               /\ calls[3] = "generate_forensic_report"
        /\ report_file.written => called("generate_forensic_report")

\* A run whose load failed on the bank feed has aborted.
C7_Witness ==
    /\ pc = "aborted"
    /\ load_error = "Data source unavailable: bank_feed.csv"
    /\ calls = <<"load_datasets">>

----------------------------------------------------------------------------
\* C8 (as amended).  The summary always carries the count of missing and
\* the count of variances.  It carries the revenue-at-risk figure, the sum
\* of the billed amounts of the missing entries, only when missing is not
\* empty, and the revenue-leakage figure, the sum of the variances of the
\* variance entries, only when variances is not empty.
C8_SummaryContent ==
    report_file.written =>
        LET s == report_file.summary
            nm == Len(missing_payments)
            nv == Len(variance_records)
            billed == [k \in 1..nm |-> missing_payments[k].billed_amount[1]]
            var == [k \in 1..nv |-> variance_records[k].variance[1]]
        IN  /\ \E k \in SummaryLines("Critical (Missing Payments)") :
                  s[k].value = <<nm>>
            /\ \E k \in SummaryLines("Warnings (Variance)") :
                  s[k].value = <<nv>>
            /\ SummaryLines("Potential Revenue at Risk") # {} <=> nm > 0
            /\ \A k \in SummaryLines("Potential Revenue at Risk") :
                  Parse2f(s[k].value) = SumOver(nm, billed)
            /\ SummaryLines("Revenue Leakage Detected") # {} <=> nv > 0
            /\ \A k \in SummaryLines("Revenue Leakage Detected") :
                  Parse2f(s[k].value) = SumOver(nv, var)

\* A report has been written for findings with no missing payment and two
\* variances.
C8_Witness ==
    /\ report_file.written
    /\ missing_payments = <<>>
    /\ Len(variance_records) = 2

\* C8 as claimed: the summary of every report carries the two counts, the
\* revenue-at-risk figure and the revenue-leakage figure.
C8_Original ==
    report_file.written =>
        LET s == report_file.summary
            nm == Len(missing_payments)
            nv == Len(variance_records)
            billed == [k \in 1..nm |-> missing_payments[k].billed_amount[1]]
            var == [k \in 1..nv |-> variance_records[k].variance[1]]
        IN  /\ \E k \in SummaryLines("Critical (Missing Payments)") :
                  s[k].value = <<nm>>
            /\ \E k \in SummaryLines("Warnings (Variance)") :
                  s[k].value = <<nv>>
            /\ \E k \in SummaryLines("Potential Revenue at Risk") :
                  Parse2f(s[k].value) = SumOver(nm, billed)
            /\ \E k \in SummaryLines("Revenue Leakage Detected") :
                  Parse2f(s[k].value) = SumOver(nv, var)

----------------------------------------------------------------------------
=============================================================================
